---- MODULE Spec2Model ----
(***************************************************************************)
(* Model of Model3DViewer (src/unnamed/part_000): mesh statistics, camera  *)
(* fitting and the smooth camera transition.                               *)
(*                                                                         *)
(* Numbers.  JavaScript numbers that take non-integer values are modelled  *)
(* as fixed-point integers: the real r is stored as r * Scale.  Scale is a *)
(* multiple of 12 * Steps^3, so the halves of the centering, the twelfths  *)
(* of the signed volumes and the cubes of the easing are exact for the     *)
(* inputs enumerated here.  Math.sqrt is the integer square root of the    *)
(* fixed-point value; NaN (arithmetic on undefined) is the record NaN.     *)
(* Floating-point rounding itself is not modelled.                         *)
(*                                                                         *)
(* Library.  THREE.Vector3 operations are modelled by their arithmetic.    *)
(* OrbitControls.update() is library code outside the repository; it is    *)
(* modelled as leaving the pose the handler wrote (no pending user input). *)
(* User input to OrbitControls (orbit, pan) is the action OrbitInput.      *)
(***************************************************************************)
EXTENDS Integers, Sequences, FiniteSets, Bags, TLC

(***************************************************************************)
(* Bounds of the model.                                                    *)
(***************************************************************************)
\* Clock readings per transition duration: Date.now() is sampled on the
\* grid of Duration / Steps milliseconds.
Steps == 2
\* Largest clock reading, in grid steps.
MaxTime == 3
\* Largest number of FileReaders reading at one time.
MaxReading == 2

(***************************************************************************)
(* Program constants.                                                      *)
(***************************************************************************)
\* const duration = 1000
Duration == 1000
\* new THREE.PerspectiveCamera( 75, ... )
Fov == 75

Scale == 12 * Steps * Steps * Steps
Quantum == (Duration + Steps - 1) \div Steps
Times == { k * Quantum : k \in 0..MaxTime }

\* A JavaScript number that may be NaN.
Num(v) == [nan |-> FALSE, val |-> v]
NaN == [nan |-> TRUE, val |-> 0]
\* A reference that may be null: <<>> is null, <<x>> is the object x.
Null == <<>>
Ref(x) == <<x>>

(***************************************************************************)
(* Fixed-point arithmetic and THREE.Vector3.                               *)
(***************************************************************************)
Abs(x) == IF x < 0 THEN -x ELSE x
Min(a, b) == IF a <= b THEN a ELSE b
Max(a, b) == IF a >= b THEN a ELSE b
Max3(a, b, c) == Max(a, Max(b, c))

FMul(a, b) == (a * b) \div Scale

RECURSIVE SqrtSearch(_, _, _)
SqrtSearch(n, lo, hi) ==
    IF lo >= hi THEN lo
    ELSE LET mid == (lo + hi + 1) \div 2
         IN  IF mid * mid <= n THEN SqrtSearch(n, mid, hi)
                               ELSE SqrtSearch(n, lo, mid - 1)

\* Math.sqrt on a sum of squares of fixed-point values: the result has the
\* scale of the values.
MathSqrt(n) == SqrtSearch(n, 0, IF n < 46340 THEN n ELSE 46340)

Vec(x, y, z) == <<x, y, z>>
Origin == Vec(0, 0, 0)
\* a vector given in whole units
Units(x, y, z) == Vec(x * Scale, y * Scale, z * Scale)

SubVectors(a, b) == Vec(a[1] - b[1], a[2] - b[2], a[3] - b[3])
CrossVectors(a, b) ==
    Vec(FMul(a[2], b[3]) - FMul(a[3], b[2]),
        FMul(a[3], b[1]) - FMul(a[1], b[3]),
        FMul(a[1], b[2]) - FMul(a[2], b[1]))
Dot(a, b) == FMul(a[1], b[1]) + FMul(a[2], b[2]) + FMul(a[3], b[3])
LengthSq(v) == v[1] * v[1] + v[2] * v[2] + v[3] * v[3]
Length(v) == MathSqrt(LengthSq(v))

\* Vector3.lerpVectors( v1, v2, alpha ): v1 + ( v2 - v1 ) * alpha
LerpVectors(v1, v2, alpha) ==
    Vec(v1[1] + FMul(v2[1] - v1[1], alpha),
        v1[2] + FMul(v2[2] - v1[2], alpha),
        v1[3] + FMul(v2[3] - v1[3], alpha))

(***************************************************************************)
(* Geometries.  A geometry is [position, index]: position the sequence of  *)
(* vertices (geometry.attributes.position), index the sequence of vertex   *)
(* numbers (geometry.index) or Null.     Buffer entries are numbered from  *)
(* 0 as in the code; entry e of a sequence s is s[e + 1].                  *)
(***************************************************************************)
Geometry(position, index) == [position |-> position, index |-> index]

\* A unit cube with its first corner at d: 8 vertices and 12 index triplets
\* wound counter-clockwise seen from outside.
Cube(d) ==
    Geometry([i \in 1..8 |->
                 LET c == <<Units(0,0,0), Units(1,0,0), Units(1,1,0),
                            Units(0,1,0), Units(0,0,1), Units(1,0,1),
                            Units(1,1,1), Units(0,1,1)>>[i]
                 IN  Vec(c[1] + d[1], c[2] + d[2], c[3] + d[3])],
             Ref(<<0, 2, 1,  0, 3, 2,  4, 5, 6,  4, 6, 7,
                   0, 1, 5,  0, 5, 4,  3, 7, 6,  3, 6, 2,
                   0, 4, 7,  0, 7, 3,  1, 2, 6,  1, 6, 5>>))

\* The geometries the parsers hand over, by file content.
ParsedGeometry(file) ==
    CASE file = "tri" ->
           Geometry(<<Units(0,0,0), Units(2,0,0), Units(0,2,0)>>, Null)
      [] file = "nine" ->
           Geometry(<<Units(0,0,0), Units(1,0,0), Units(0,1,0),
                      Units(0,0,0), Units(0,1,0), Units(0,0,1),
                      Units(0,0,0), Units(0,0,1), Units(1,0,0)>>, Null)
      [] file = "point" ->
           Geometry(<<Units(1,1,1), Units(1,1,1), Units(1,1,1)>>, Null)
      [] file = "four" ->
           Geometry(<<Units(0,0,0), Units(2,0,0), Units(0,2,0), Units(0,0,2)>>,
                    Null)
      [] file = "quad" ->
           Geometry(<<Units(0,0,0), Units(1,0,0), Units(1,1,0), Units(0,1,0)>>,
                    Ref(<<0, 1, 2, 0, 2, 3>>))
      [] file = "badindex" ->
           Geometry(<<Units(0,0,0), Units(2,0,0), Units(0,2,0)>>, Ref(<<0, 1, 3>>))
      [] file = "cube" -> Cube(Origin)
      [] file = "cubeMoved" -> Cube(Units(3, -2, 1))
      [] file = "cubeCentered" ->
           Cube(Vec(-(Scale \div 2), -(Scale \div 2), -(Scale \div 2)))

\* The files the user can select, named by their content.  The ones above
\* parse to a geometry; "corrupt" makes loader.parse throw; "hollow" is an
\* OBJ file that holds no mesh; "readme" is neither .stl nor .obj.
Files ==
    {"tri", "nine", "point", "four", "quad", "badindex", "corrupt", "hollow",
     "readme"}
\* OBJ files of the unit cube, placed at three different spots.
Cubes == {"cube", "cubeMoved", "cubeCentered"}

\* fileName.endsWith( '.stl' ) / fileName.endsWith( '.obj' )
FileType(file) ==
    CASE file \in {"tri", "nine", "point", "four", "corrupt"} -> "stl"
      [] file \in {"quad", "badindex", "cube", "cubeMoved", "cubeCentered",
                   "hollow"} -> "obj"
      [] OTHER -> "unsupported"

ParseThrows(file) == file = "corrupt"
\* loadOBJ: the parsed object holds no geometry
NoGeometry(file) == file = "hollow"

Indexed(g) == g.index # Null
PositionCount(g) == Len(g.position)
IndexCount(g) == Len(g.index[1])

\* geometry.computeBoundingBox(): component-wise min and max of the vertices
RECURSIVE MinOver(_, _, _)
MinOver(g, c, n) ==
    IF n = 1 THEN g.position[1][c]
    ELSE Min(MinOver(g, c, n - 1), g.position[n][c])
RECURSIVE MaxOver(_, _, _)
MaxOver(g, c, n) ==
    IF n = 1 THEN g.position[1][c]
    ELSE Max(MaxOver(g, c, n - 1), g.position[n][c])
ComputeBoundingBox(g) ==
    LET n == PositionCount(g)
    IN  [min |-> Vec(MinOver(g, 1, n), MinOver(g, 2, n), MinOver(g, 3, n)),
         max |-> Vec(MaxOver(g, 1, n), MaxOver(g, 2, n), MaxOver(g, 3, n))]

\* Mutation of GetCenter: the sum of the corners is not halved.
GetCenterUnhalved(box) ==
    Vec(box.min[1] + box.max[1], box.min[2] + box.max[2],
        box.min[3] + box.max[3])

\* Box3.getCenter, Box3.getSize
GetCenter(box) ==
    Vec((box.min[1] + box.max[1]) \div 2,
        (box.min[2] + box.max[2]) \div 2,
        (box.min[3] + box.max[3]) \div 2)
GetSize(box) == SubVectors(box.max, box.min)

\* Mutation of Translate: the translated geometry loses its index buffer.
TranslateDroppingIndex(g, d) ==
    [position |->
        [i \in 1..PositionCount(g) |->
            Vec(g.position[i][1] + d[1], g.position[i][2] + d[2],
                g.position[i][3] + d[3])],
     index |-> Null]

\* geometry.translate( x, y, z ): moves the vertices, leaves the index
Translate(g, d) ==
    [g EXCEPT !.position =
        [i \in 1..PositionCount(g) |->
            Vec(g.position[i][1] + d[1], g.position[i][2] + d[2],
                g.position[i][3] + d[3])]]

\* createModelFromGeometry, "Center the geometry"
CenterGeometry(g) ==
    LET center == GetCenter(ComputeBoundingBox(g))
    IN  Translate(g, Vec(-center[1], -center[2], -center[3]))

(***************************************************************************)
(* calculateSurfaceAreaAndVolume.                                          *)
(***************************************************************************)
\* The buffer entries each iteration of the loop reads: entries of the
\* index buffer when the geometry is indexed, of the vertex buffer when not.
PassEntries(g) ==
    IF Indexed(g)
    THEN [k \in 1..((IndexCount(g) + 2) \div 3) |->
            <<3 * (k - 1), 3 * (k - 1) + 1, 3 * (k - 1) + 2>>]
    ELSE [k \in 1..((PositionCount(g) + 8) \div 9) |->
            <<9 * (k - 1), 9 * (k - 1) + 3, 9 * (k - 1) + 6>>]

\* The vertex an entry resolves to: <<v>>, or <<>> when a read falls outside
\* its buffer (getX returns undefined).
EntryVertex(g, e) ==
    IF Indexed(g)
    THEN IF e < IndexCount(g) /\ g.index[1][e + 1] < PositionCount(g)
         THEN <<g.position[g.index[1][e + 1] + 1]>>
         ELSE <<>>
    ELSE IF e < PositionCount(g) THEN <<g.position[e + 1]>> ELSE <<>>

CalculateTriangleArea(v1, v2, v3) ==
    LET edge1 == SubVectors(v2, v1)
        edge2 == SubVectors(v3, v1)
        cross == CrossVectors(edge1, edge2)
    IN  Length(cross) \div 2

\* Mutation of CalculateSignedVolume: the triple product is not divided.
CalculateSignedVolumeUndivided(v1, v2, v3) == Dot(v1, CrossVectors(v2, v3))

CalculateSignedVolume(v1, v2, v3) == Dot(v1, CrossVectors(v2, v3)) \div 6

NumAdd(a, b) == IF a.nan \/ b.nan THEN NaN ELSE Num(a.val + b.val)
NumAbs(a) == IF a.nan THEN NaN ELSE Num(Abs(a.val))

TriangleArea(g, t) ==
    LET a == EntryVertex(g, t[1])
        b == EntryVertex(g, t[2])
        c == EntryVertex(g, t[3])
    IN  IF a = <<>> \/ b = <<>> \/ c = <<>> THEN NaN
        ELSE Num(CalculateTriangleArea(a[1], b[1], c[1]))

TriangleVolume(g, t) ==
    LET a == EntryVertex(g, t[1])
        b == EntryVertex(g, t[2])
        c == EntryVertex(g, t[3])
    IN  IF a = <<>> \/ b = <<>> \/ c = <<>> THEN NaN
        ELSE Num(CalculateSignedVolume(a[1], b[1], c[1]))

RECURSIVE SumArea(_, _, _)
SumArea(g, ts, k) ==
    IF k = 0 THEN Num(0)
    ELSE NumAdd(SumArea(g, ts, k - 1), TriangleArea(g, ts[k]))

RECURSIVE SumVolume(_, _, _)
SumVolume(g, ts, k) ==
    IF k = 0 THEN Num(0)
    ELSE NumAdd(SumVolume(g, ts, k - 1), TriangleVolume(g, ts[k]))

CalculateSurfaceAreaAndVolume(g) ==
    LET ts == PassEntries(g)
    IN  [surfaceArea |-> SumArea(g, ts, Len(ts)),
         volume      |-> NumAbs(SumVolume(g, ts, Len(ts)))]

\* indices ? indices.count / 3 : positions.count / 3
FaceCount(g) ==
    IF Indexed(g) THEN (IndexCount(g) * Scale) \div 3
                  ELSE (PositionCount(g) * Scale) \div 3

CalculateModelStats(g) ==
    LET av == CalculateSurfaceAreaAndVolume(g)
    IN  [vertices    |-> PositionCount(g),
         faces       |-> FaceCount(g),
         boundingBox |-> Ref(ComputeBoundingBox(g)),
         surfaceArea |-> av.surfaceArea,
         volume      |-> av.volume]

InitialModelStats ==
    [vertices    |-> 0,
     faces       |-> 0,
     boundingBox |-> Null,
     surfaceArea |-> Num(0),
     volume      |-> Num(0)]

(***************************************************************************)
(* fitCameraToModel.                                                       *)
(***************************************************************************)
\* Math.tan( fov / 2 ) for fov = 75 degrees is 0.76732...; the model uses
\* the rational 23 / 30 = 0.76666...
TanHalfFov == IF Fov = 75 THEN <<23, 30>> ELSE <<1, 1>>

MaxDim(g) ==
    LET size == GetSize(ComputeBoundingBox(g))
    IN  Max3(size[1], size[2], size[3])

\* Mutation of CameraZ: the padding factor is left out.
CameraZUnpadded(g) == Abs(MaxDim(g) * TanHalfFov[2]) \div (2 * TanHalfFov[1])

\* cameraZ = Math.abs( maxDim / 2 / Math.tan( fov / 2 ) ) * 2.5
CameraZ(g) ==
    (Abs(MaxDim(g) * TanHalfFov[2]) * 5) \div (2 * TanHalfFov[1] * 2)

FitCameraToModel(g) ==
    LET cameraZ == CameraZ(g)
    IN  [position |-> Vec(cameraZ, cameraZ, cameraZ),
         target   |-> Origin]

(***************************************************************************)
(* setCameraViewSmooth and animateCameraToPosition.                        *)
(***************************************************************************)
Presets == {"top", "bottom", "front", "back", "left", "right"}
\* "reset" stands for every value of the view selector that is no preset.
Views == Presets \cup {"reset"}

\* the switch of setCameraViewSmooth
ViewTarget(view, distance) ==
    CASE view = "top"    -> Vec(0, distance, 0)
      [] view = "bottom" -> Vec(0, -distance, 0)
      [] view = "front"  -> Vec(0, 0, distance)
      [] view = "back"   -> Vec(0, 0, -distance)
      [] view = "left"   -> Vec(-distance, 0, 0)
      [] view = "right"  -> Vec(distance, 0, 0)

\* Mutation of Progress: the clamp at 1 is forgotten.
ProgressUnclamped(elapsed) == (elapsed * Scale) \div Duration

\* progress = Math.min( elapsed / duration, 1 )
Progress(elapsed) == Min((elapsed * Scale) \div Duration, Scale)

\* easeProgress = 1 - Math.pow( 1 - progress, 3 )
EaseProgress(progress) ==
    Scale - FMul(FMul(Scale - progress, Scale - progress), Scale - progress)

\* Mutation of Animate: the closure is scheduled again at progress 1 too.
AnimateStalled(tr, t) ==
    LET elapsed      == t - tr.startTime
        progress     == Progress(elapsed)
        easeProgress == EaseProgress(progress)
    IN  [position     |-> LerpVectors(tr.startPosition, tr.targetPosition,
                                      easeProgress),
         target       |-> LerpVectors(tr.startTarget, Origin, easeProgress),
         elapsed      |-> elapsed,
         progress     |-> progress,
         easeProgress |-> easeProgress,
         again        |-> progress <= Scale]

\* One run of the closure animate of the transition tr at clock reading t.
Animate(tr, t) ==
    LET elapsed      == t - tr.startTime
        progress     == Progress(elapsed)
        easeProgress == EaseProgress(progress)
    IN  [position     |-> LerpVectors(tr.startPosition, tr.targetPosition,
                                      easeProgress),
         target       |-> LerpVectors(tr.startTarget, Origin, easeProgress),
         elapsed      |-> elapsed,
         progress     |-> progress,
         easeProgress |-> easeProgress,
         again        |-> progress < Scale]

(***************************************************************************)
(* State.                                                                  *)
(***************************************************************************)
VARIABLES
    currentModel,     \* Null, or Ref of the geometry of this.currentModel
    modelStats,       \* this.modelStats
    cameraPosition,   \* this.camera.position
    controlsTarget,   \* this.controls.target
    isTransitioning,  \* this.isTransitioning
    transition,       \* Null, or Ref of the closure of animateCameraToPosition
                      \* whose animate is scheduled for the next frame
    now,              \* Date.now()
    loadedFiles,      \* this.loadedFiles
    currentFileIndex, \* this.currentFileIndex
    reading,          \* the FileReaders that have not called onload yet:
                      \* a bag of [file, latest], latest telling that the
                      \* most recent handleFileUpload started the read
    lastOp            \* the handler that ran last and what it computed

vars == <<currentModel, modelStats, cameraPosition, controlsTarget,
          isTransitioning, transition, now, loadedFiles, currentFileIndex,
          reading, lastOp>>

viewer == <<currentModel, modelStats>>
camera == <<cameraPosition, controlsTarget>>
files == <<loadedFiles, currentFileIndex, reading>>

\* lastOp: op names the handler; view and file are its argument (latest as
\* in reading); accepted tells that it passed its guard (for onload: that it
\* replaced the model); error that it caught an exception;
\* stepped that it ran the closure animate, whose locals and captured
\* variables follow; after is the handler that ran before an animation frame.
Op(op) ==
    [op |-> op, view |-> "", file |-> "", latest |-> FALSE,
     accepted |-> FALSE, error |-> FALSE,
     stepped |-> FALSE, elapsed |-> 0, progress |-> 0, easeProgress |-> 0,
     startPosition |-> Origin, startTarget |-> Origin,
     targetPosition |-> Origin,
     after |-> [op |-> "", view |-> "", accepted |-> FALSE]]

Stepped(o, tr, step) ==
    [o EXCEPT !.stepped = TRUE, !.elapsed = step.elapsed,
              !.progress = step.progress,
              !.easeProgress = step.easeProgress,
              !.startPosition = tr.startPosition,
              !.startTarget = tr.startTarget,
              !.targetPosition = tr.targetPosition]

\* Poses the user can bring about through OrbitControls: by orbiting
\* (the target stays at the origin) and by panning (the target moves).
Orbited == [position |-> Units(0, 3, 4), target |-> Origin]
Panned == [position |-> Units(3, 4, 0), target |-> Units(3, 0, 0)]

Init ==
    /\ currentModel = Null
    /\ modelStats = InitialModelStats
    /\ cameraPosition = Units(5, 5, 5)
    /\ controlsTarget = Origin
    /\ isTransitioning = FALSE
    /\ transition = Null
    /\ now = 0
    /\ loadedFiles = <<>>
    /\ currentFileIndex = -1
    /\ reading = EmptyBag
    /\ lastOp = Op("constructor")

(***************************************************************************)
(* Handlers.                                                               *)
(***************************************************************************)
\* The reads in flight once a new selection has been made: none of them
\* belongs to the most recent selection any more.
Superseded(bag) ==
    LET old(r) == [r EXCEPT !.latest = FALSE]
        olds   == { old(r) : r \in BagToSet(bag) }
    IN  [o \in olds |->
            CopiesIn(o, bag) + CopiesIn([o EXCEPT !.latest = TRUE], bag)]

\* Mutation of HandleFileUpload: currentFileIndex is not reset.
HandleFileUploadKeepingIndex(selection) ==
    LET readers == { [file |-> f, latest |-> TRUE] :
                       f \in { x \in selection : FileType(x) # "unsupported" } }
    IN  /\ BagCardinality(reading) + Cardinality(readers) <= MaxReading
        /\ loadedFiles' = <<>>
        /\ currentFileIndex' = currentFileIndex
        /\ reading' = Superseded(reading) (+) SetToBag(readers)
        /\ lastOp' = Op("handleFileUpload")
        /\ UNCHANGED <<viewer, camera, isTransitioning, transition, now>>

\* change of the file input: handleFileUpload( files ), files not empty.
\* Every .stl and .obj file gets a FileReader (loadSTL, loadOBJ); the others
\* are reported and skipped.
HandleFileUpload(selection) ==
    LET readers == { [file |-> f, latest |-> TRUE] :
                       f \in { x \in selection : FileType(x) # "unsupported" } }
    IN  /\ BagCardinality(reading) + Cardinality(readers) <= MaxReading
        /\ loadedFiles' = <<>>
        /\ currentFileIndex' = -1
        /\ reading' = Superseded(reading) (+) SetToBag(readers)
        /\ lastOp' = Op("handleFileUpload")
        /\ UNCHANGED <<viewer, camera, isTransitioning, transition, now>>

\* Mutation of CreateModelFromGeometry: the area and the volume of the model
\* shown before are kept.
CreateModelKeepingMetrics(geometry) ==
    LET centered == CenterGeometry(geometry)
        fit      == FitCameraToModel(centered)
        stats    == CalculateModelStats(centered)
    IN  /\ currentModel' = Ref(centered)
        /\ modelStats' = [stats EXCEPT !.surfaceArea = modelStats.surfaceArea,
                                       !.volume = modelStats.volume]
        /\ cameraPosition' = fit.position
        /\ controlsTarget' = fit.target

\* createModelFromGeometry( geometry )
CreateModelFromGeometry(geometry) ==
    LET centered == CenterGeometry(geometry)
        fit      == FitCameraToModel(centered)
    IN  /\ currentModel' = Ref(centered)
        /\ modelStats' = CalculateModelStats(centered)
        /\ cameraPosition' = fit.position
        /\ controlsTarget' = fit.target

\* reader.onload of loadSTL / loadOBJ:
\* try { parse; createModelFromGeometry; loadedFiles.push; currentFileIndex }
\* catch { alert }
FileLoaded(r) ==
    /\ BagIn(r, reading)
    /\ reading' = reading (-) SetToBag({r})
    /\ IF ParseThrows(r.file)
       THEN /\ lastOp' = [Op("onload") EXCEPT !.file = r.file,
                                              !.latest = r.latest,
                                              !.error = TRUE]
            /\ UNCHANGED <<viewer, camera, loadedFiles, currentFileIndex>>
       ELSE IF NoGeometry(r.file)
       THEN /\ lastOp' = [Op("onload") EXCEPT !.file = r.file,
                                              !.latest = r.latest]
            /\ UNCHANGED <<viewer, camera, loadedFiles, currentFileIndex>>
       ELSE /\ CreateModelFromGeometry(ParsedGeometry(r.file))
            /\ loadedFiles' =
                   Append(loadedFiles,
                          [file     |-> r.file,
                           geometry |-> CenterGeometry(ParsedGeometry(r.file)),
                           type     |-> FileType(r.file),
                           latest   |-> r.latest])
            /\ currentFileIndex' = Len(loadedFiles')  - 1
            /\ lastOp' = [Op("onload") EXCEPT !.file = r.file,
                                              !.latest = r.latest,
                                              !.accepted = TRUE]
    /\ UNCHANGED <<isTransitioning, transition, now>>

\* resetCameraView()
ResetCameraView ==
    IF currentModel = Null
    THEN UNCHANGED <<cameraPosition, controlsTarget>>
    ELSE LET fit == FitCameraToModel(currentModel[1])
         IN  /\ cameraPosition' = fit.position
             /\ controlsTarget' = fit.target

\* click on the Reset View button
ResetViewClicked ==
    /\ ResetCameraView
    /\ lastOp' = [Op("resetView") EXCEPT !.accepted = currentModel # Null]
    /\ UNCHANGED <<viewer, files, isTransitioning, transition, now>>

\* Mutation of Ignored: a transition in flight does not stop a request.
IgnoredOnlyWithoutModel == currentModel = Null

\* the guard of setCameraViewSmooth: the request returns at once
Ignored == currentModel = Null \/ isTransitioning

\* Mutation of Distance: the distance is measured to the orbit target.
DistanceToTarget == Length(SubVectors(cameraPosition, controlsTarget))

\* const distance = this.camera.position.length()
Distance == Length(cameraPosition)

\* animateCameraToPosition( targetPosition ), with its first call of animate
AnimateCameraToPosition(view, targetPosition) ==
    LET tr   == [startPosition  |-> cameraPosition,
                 startTarget    |-> controlsTarget,
                 targetPosition |-> targetPosition,
                 startTime      |-> now,
                 view           |-> view]
        step == Animate(tr, now)
    IN  /\ cameraPosition' = step.position
        /\ controlsTarget' = step.target
        /\ isTransitioning' = step.again
        /\ transition' = IF step.again THEN Ref(tr) ELSE Null
        /\ lastOp' = Stepped([Op("setCameraViewSmooth") EXCEPT
                                 !.view = view, !.accepted = TRUE], tr, step)

\* change of the view selector: setCameraViewSmooth( view )
SetCameraViewSmooth(view) ==
    /\ IF Ignored
       THEN /\ lastOp' = [Op("setCameraViewSmooth") EXCEPT !.view = view]
            /\ UNCHANGED <<cameraPosition, controlsTarget, isTransitioning,
                           transition>>
       ELSE IF view \in Presets
            THEN AnimateCameraToPosition(view, ViewTarget(view, Distance))
            ELSE /\ isTransitioning' = TRUE
                 /\ ResetCameraView
                 /\ lastOp' = [Op("setCameraViewSmooth") EXCEPT
                                  !.view = view, !.accepted = TRUE]
                 /\ UNCHANGED transition
    /\ UNCHANGED <<viewer, files, now>>

\* the requestAnimationFrame callback animate of a transition
AnimationFrame ==
    /\ transition # Null
    /\ LET tr   == transition[1]
           step == Animate(tr, now)
       IN  /\ cameraPosition' = step.position
           /\ controlsTarget' = step.target
           /\ isTransitioning' = IF step.again THEN isTransitioning ELSE FALSE
           /\ transition' = IF step.again THEN transition ELSE Null
           /\ lastOp' = Stepped([Op("animate") EXCEPT
                                    !.view = tr.view,
                                    !.after = [op       |-> lastOp.op,
                                               view     |-> lastOp.view,
                                               accepted |-> lastOp.accepted]],
                                tr, step)
    /\ UNCHANGED <<viewer, files, now>>

\* the user orbits or pans through OrbitControls
OrbitInput(pose) ==
    /\ cameraPosition' = pose.position
    /\ controlsTarget' = pose.target
    /\ lastOp' = Op("orbit")
    /\ UNCHANGED <<viewer, files, isTransitioning, transition, now>>

\* Date.now() moves forward
ClockAdvances(t) ==
    /\ t > now
    /\ now' = t
    /\ lastOp' = Op("clock")
    /\ UNCHANGED <<viewer, files, camera, isTransitioning, transition>>

\* Date.now() is the wall clock: it steps back when the clock is adjusted
ClockStepsBack(t) ==
    /\ t < now
    /\ now' = t
    /\ lastOp' = Op("clock")
    /\ UNCHANGED <<viewer, files, camera, isTransitioning, transition>>

\* The handlers, with their inputs drawn from the given sets: selections are
\* the files the user picks while no read is in flight, overlapping the ones
\* picked while some are.
NextOn(selections, overlapping, views, times, poses) ==
    \/ \E selection \in (IF reading = EmptyBag THEN selections ELSE overlapping) :
          HandleFileUpload(selection)
    \/ \E r \in BagToSet(reading) : FileLoaded(r)
    \/ ResetViewClicked
    \/ \E view \in views : SetCameraViewSmooth(view)
    \/ AnimationFrame
    \/ \E pose \in poses : OrbitInput(pose)
    \/ \E t \in times : ClockAdvances(t)
    \/ \E t \in times : ClockStepsBack(t)

\* Transitions: one model, two presets and the reset, the clock on its grid.
Next == NextOn({{"tri"}}, {}, {"top", "left", "reset"}, Times, {Panned})
Spec == Init /\ [][Next]_vars

\* The clock reading at which the transition in flight is over.
Deadline == transition[1].startTime + Duration

\* A frame delivered once the clock has reached the deadline.
DueFrame == AnimationFrame /\ now >= Deadline

\* The clock reaches the deadline of the transition in flight.
ClockReaches ==
    \E t \in Times : transition # Null /\ t >= Deadline /\ ClockAdvances(t)

\* Transitions of one preset, with frames that keep being delivered
\* (requestAnimationFrame runs the scheduled closure) and a clock that reaches
\* the deadline of a transition in flight, however often it is set back,
\* with a frame delivered while it has.
NextLive == NextOn({{"tri"}}, {}, {"top"}, Times, {Panned})
SpecLive ==
    /\ Init /\ [][NextLive]_vars
    /\ WF_vars(AnimationFrame)
    /\ SF_vars(ClockReaches)
    /\ SF_vars(DueFrame)

\* Presets: one model, every view, the clock before and after a whole
\* duration.
NextViews == NextOn({{"tri"}}, {}, Views, {0, Duration}, {Panned})
SpecViews == Init /\ [][NextViews]_vars

\* Meshes and fitting: every file, alone in its selection and read before the
\* next is picked; one preset and the reset.
NextMesh ==
    NextOn({ {f} : f \in Files }, {}, {"front", "reset"}, {0, Duration},
           {Orbited})
SpecMesh == Init /\ [][NextMesh]_vars

\* Unit cubes: each cube file, alone in its selection.
NextCube ==
    NextOn({ {f} : f \in Cubes }, {}, {"front", "reset"}, {0, Duration},
           {Orbited})
SpecCube == Init /\ [][NextCube]_vars

\* Selections: several files at a time, picked again while reads are in
\* flight.
Selections == {{"tri"}, {"point", "readme"}, {"tri", "hollow"}, {"corrupt"}}
NextFiles == NextOn(Selections, Selections, {"front"}, {0, Duration}, {Orbited})
SpecFiles == Init /\ [][NextFiles]_vars

(***************************************************************************)
(* Properties.                                                             *)
(***************************************************************************)
\* The handler that ran last placed the camera with fitCameraToModel.
FitJustDone ==
    \/ lastOp.op = "onload" /\ lastOp.accepted
    \/ lastOp.op = "resetView" /\ lastOp.accepted
    \/ lastOp.op = "setCameraViewSmooth" /\ lastOp.accepted
         /\ lastOp.view \notin Presets

\* C1: a view request through the selector with a value that is no preset,
\* made while a model is loaded and the controller is Idle, places the camera
\* at the fit pose and leaves the controller Idle (isTransitioning false), so
\* that a later directional request is accepted.
C1_ResetBypassesController ==
    (lastOp.op = "setCameraViewSmooth" /\ lastOp.accepted
        /\ lastOp.view \notin Presets)
    => /\ cameraPosition = FitCameraToModel(currentModel[1]).position
       /\ ~isTransitioning

\* C2: a view request made while the controller is Transitioning changes
\* nothing; the transition in flight keeps its start pose, end position and
\* start time on every step until it ends, and it ends in a frame that puts
\* the camera on the end position of the request that started it, the orbit
\* target on the origin and the controller back to Idle.
C2_Step ==
    /\ (isTransitioning /\ lastOp'.op = "setCameraViewSmooth")
         => UNCHANGED <<viewer, camera, files, isTransitioning, transition,
                        now>>
    /\ transition # Null
         => \/ transition' = transition
            \/ /\ transition' = Null
               /\ lastOp'.op = "animate"
               /\ lastOp'.view = transition[1].view
               /\ cameraPosition' = transition[1].targetPosition
               /\ controlsTarget' = Origin
               /\ ~isTransitioning'
C2_RequestWhileTransitioningIgnored == [][C2_Step]_vars

\* C2 witness: a transition has just ended on its own end position in the
\* frame after a request for another preset was ignored.
C2_Witness ==
    /\ lastOp.op = "animate"
    /\ transition = Null
    /\ lastOp.after.op = "setCameraViewSmooth"
    /\ ~lastOp.after.accepted
    /\ lastOp.after.view \in Presets \ {lastOp.view}
    /\ cameraPosition = lastOp.targetPosition
    /\ lastOp.targetPosition # lastOp.startPosition

Between(t, a, b) == (a <= t /\ t <= b) \/ (b <= t /\ t <= a)

\* C10: on every run of animate, for every clock reading, progress and eased
\* lie in [0, 1] and the pose written lies between the start pose and the
\* end pose.
C10_ProgressWithinUnitInterval ==
    lastOp.stepped
    => /\ 0 <= lastOp.progress /\ lastOp.progress <= Scale
       /\ 0 <= lastOp.easeProgress /\ lastOp.easeProgress <= Scale
       /\ \A c \in 1..3 :
             /\ Between(cameraPosition[c], lastOp.startPosition[c],
                        lastOp.targetPosition[c])
             /\ Between(controlsTarget[c], lastOp.startTarget[c], 0)

\* C4: faceCount * 3 is the number of buffer entries the area/volume pass
\* reads: the pass visits faceCount triangles, triangle k made of the three
\* consecutive in-range entries 3k, 3k + 1, 3k + 2 (of the index buffer when
\* the mesh is indexed, of the vertex buffer when it is not).
C4_FaceCountMatchesPass ==
    currentModel # Null
    => LET g     == currentModel[1]
           ts    == PassEntries(g)
           count == IF Indexed(g) THEN IndexCount(g) ELSE PositionCount(g)
       IN  /\ modelStats.faces * 3 = 3 * Len(ts) * Scale
           /\ \A k \in 1..Len(ts) :
                 /\ ts[k] = <<3 * (k - 1), 3 * (k - 1) + 1, 3 * (k - 1) + 2>>
                 /\ \A j \in 1..3 : ts[k][j] < count

\* the parser hands over a geometry for the file
Parses(file) == ~ParseThrows(file) /\ ~NoGeometry(file)

\* the index buffer names a vertex that does not exist
HasOutOfRangeIndex(g) ==
    /\ Indexed(g)
    /\ \E i \in 1..IndexCount(g) : g.index[1][i] >= PositionCount(g)

\* C5: loading a mesh whose index buffer holds a value >= the vertex count
\* raises an error and writes no field of modelStats.
C5_Step ==
    (/\ lastOp'.op = "onload"
     /\ Parses(lastOp'.file)
     /\ HasOutOfRangeIndex(ParsedGeometry(lastOp'.file)))
    => /\ lastOp'.error
       /\ modelStats' = modelStats
C5_OutOfRangeIndexRejected == [][C5_Step]_vars

\* no index buffer, and a vertex count that is no multiple of 3
HasStrayVertices(g) == ~Indexed(g) /\ PositionCount(g) % 3 # 0

\* C6: loading an unindexed mesh whose vertex count is no multiple of 3
\* fails with an error and leaves modelStats and the camera pose as they were.
C6_Step ==
    (/\ lastOp'.op = "onload"
     /\ Parses(lastOp'.file)
     /\ HasStrayVertices(ParsedGeometry(lastOp'.file)))
    => /\ lastOp'.error
       /\ modelStats' = modelStats
       /\ cameraPosition' = cameraPosition
       /\ controlsTarget' = controlsTarget
C6_StrayVerticesRejected == [][C6_Step]_vars

\* the largest axis size of the bounding box recorded in modelStats
StatsMaxDim ==
    LET box == modelStats.boundingBox[1]
    IN  Max3(box.max[1] - box.min[1], box.max[2] - box.min[2],
             box.max[3] - box.min[3])

\* d is | maxDim / 2 / tan( fov / 2 ) | * 2.5 in the fixed-point arithmetic
IsFitDistance(d) ==
    LET num == StatsMaxDim * TanHalfFov[2] * 5
        den == 2 * TanHalfFov[1] * 2
    IN  d >= 0 /\ d * den <= num /\ num < (d + 1) * den

CameraToTargetSq == LengthSq(SubVectors(cameraPosition, controlsTarget))

PresetAxis(view) ==
    CASE view = "top"    -> Vec(0, 1, 0)
      [] view = "bottom" -> Vec(0, -1, 0)
      [] view = "front"  -> Vec(0, 0, 1)
      [] view = "back"   -> Vec(0, 0, -1)
      [] view = "right"  -> Vec(1, 0, 0)
      [] view = "left"   -> Vec(-1, 0, 0)

\* end is the unit vector of the preset scaled by the length of v
EndsAtLengthOf(end, view, v) ==
    LET axis == PresetAxis(view)
        len  == axis[1] * end[1] + axis[2] * end[2] + axis[3] * end[3]
    IN  /\ end = Vec(axis[1] * len, axis[2] * len, axis[3] * len)
        /\ len >= 0
        /\ len * len <= LengthSq(v)
        /\ LengthSq(v) < (len + 1) * (len + 1)

PresetAccepted ==
    /\ lastOp'.op = "setCameraViewSmooth"
    /\ lastOp'.accepted
    /\ lastOp'.view \in Presets

\* C9 as claimed: the end position of an accepted preset is the preset's unit
\* vector scaled by the distance between the camera position and the orbit
\* target at request time, and no later step alters it.
C9_StepToTarget ==
    /\ PresetAccepted
         => /\ transition' # Null
            /\ EndsAtLengthOf(transition'[1].targetPosition, lastOp'.view,
                               SubVectors(cameraPosition, controlsTarget))
    /\ (transition # Null /\ transition' # Null)
         => transition'[1].targetPosition = transition[1].targetPosition
C9_EndScaledByDistanceToTarget == [][C9_StepToTarget]_vars

\* C9 as amended: the end position of an accepted preset is the preset's unit
\* vector scaled by the length of the camera position (its distance from the
\* origin) at request time, and no later step alters it.
C9_StepFromOrigin ==
    /\ PresetAccepted
         => /\ transition' # Null
            /\ EndsAtLengthOf(transition'[1].targetPosition, lastOp'.view,
                               cameraPosition)
    /\ (transition # Null /\ transition' # Null)
         => transition'[1].targetPosition = transition[1].targetPosition
C9_EndScaledByDistanceFromOrigin == [][C9_StepFromOrigin]_vars

\* C9 witness: a transition requested while the orbit target was off the
\* origin is in flight, and the camera has moved since the request.
C9_Witness ==
    /\ transition # Null
    /\ transition[1].startTarget # Origin
    /\ transition[1].targetPosition # Origin
    /\ cameraPosition # transition[1].startPosition
    /\ lastOp.op = "animate"


\* C11: in every state between two events the five fields of modelStats are
\* the ones calculateModelStats computes from the geometry of the displayed
\* model (and the constructor's while no model is displayed): no state mixes
\* fields of two meshes.
C11_StatsOfDisplayedModel ==
    IF currentModel = Null
    THEN modelStats = InitialModelStats
    ELSE LET g  == currentModel[1]
             av == CalculateSurfaceAreaAndVolume(g)
         IN  /\ modelStats.vertices = PositionCount(g)
             /\ modelStats.faces = FaceCount(g)
             /\ modelStats.boundingBox = Ref(ComputeBoundingBox(g))
             /\ modelStats.surfaceArea = av.surfaceArea
             /\ modelStats.volume = av.volume

\* C11 witness: a read started by an earlier upload has completed after a
\* read of the latest one, replacing a model with other statistics.
C11_Witness ==
    /\ lastOp.op = "onload"
    /\ lastOp.accepted
    /\ Len(loadedFiles) >= 2
    /\ loadedFiles[1].file # loadedFiles[2].file
    /\ CalculateModelStats(loadedFiles[1].geometry) # modelStats
    /\ CalculateModelStats(loadedFiles[Len(loadedFiles)].geometry) = modelStats


\* C12: normalization is idempotent: the geometry displayed after a load is
\* the parsed one translated by minus its bounding-box center, its own
\* bounding-box center is the origin, and translating it by minus that
\* center again gives the same vertices.
C12_NormalizeIdempotent ==
    (lastOp.op = "onload" /\ lastOp.accepted)
    => LET once == CenterGeometry(ParsedGeometry(lastOp.file))
       IN  /\ currentModel = Ref(once)
           /\ GetCenter(ComputeBoundingBox(once)) = Origin
           /\ CenterGeometry(once) = once

\* C12 witness: a load whose normalization moved the vertices along every
\* axis.
C12_Witness ==
    /\ lastOp.op = "onload"
    /\ lastOp.accepted
    /\ LET center == GetCenter(ComputeBoundingBox(ParsedGeometry(lastOp.file)))
       IN  center[1] # 0 /\ center[2] # 0 /\ center[3] # 0
    /\ currentModel # Ref(ParsedGeometry(lastOp.file))


\* C13: normalization at load time changes only vertex coordinates: the
\* displayed geometry has the index buffer and the vertex count of the parsed
\* one, and the center of the bounding box recorded in modelStats is the
\* origin.
C13_NormalizeKeepsTopology ==
    (lastOp.op = "onload" /\ lastOp.accepted)
    => LET before == ParsedGeometry(lastOp.file)
           after  == currentModel[1]
       IN  /\ after.index = before.index
           /\ PositionCount(after) = PositionCount(before)
           /\ modelStats.vertices = PositionCount(before)
           /\ GetCenter(modelStats.boundingBox[1]) = Origin

\* C13 witness: the load of an indexed geometry that was not centered.
C13_Witness ==
    /\ lastOp.op = "onload"
    /\ lastOp.accepted
    /\ Indexed(currentModel[1])
    /\ IndexCount(currentModel[1]) > 3
    /\ currentModel[1].position # ParsedGeometry(lastOp.file).position


\* C14: for the unit cube of 8 vertices and 12 outward-wound index triplets,
\* wherever it lies before normalization, the pass over its 12 triangles
\* yields volume 1 and surfaceArea 6.
C14_UnitCubeMetrics ==
    (lastOp.op = "onload" /\ lastOp.accepted /\ lastOp.file \in Cubes)
    => /\ modelStats.vertices = 8
       /\ Len(PassEntries(currentModel[1])) = 12
       /\ modelStats.volume = Num(Scale)
       /\ modelStats.surfaceArea = Num(6 * Scale)

\* C14 witness: the cube that lay away from the origin on every axis has been
\* loaded and measured.
C14_Witness ==
    /\ lastOp.op = "onload"
    /\ lastOp.file = "cubeMoved"
    /\ ParsedGeometry("cubeMoved").position # currentModel[1].position
    /\ modelStats.volume = Num(Scale)


\* the deadline of the transition in flight is a reading of the clock grid
DeadlineOnGrid == \E t \in Times : t >= Deadline

\* a run of animate leaves the controller Idle exactly when its elapsed time
\* has reached the duration
C15_IdleExactlyWhenDue ==
    lastOp.stepped
    => IF lastOp.elapsed >= Duration
       THEN ~isTransitioning /\ transition = Null
       ELSE isTransitioning /\ transition # Null

\* C15: once a directional request has been accepted, with frames that keep
\* being delivered and a clock that reaches startTime + 1000, the controller
\* eventually returns to Idle; every run of animate with now - startTime
\* >= 1000 leaves it Idle and every earlier one leaves it Transitioning,
\* whatever the number and the spacing of the frames.
C15_TransitionEnds ==
    /\ []C15_IdleExactlyWhenDue
    /\ (transition # Null /\ DeadlineOnGrid)
          ~> (transition = Null /\ ~isTransitioning)

\* C15 witness: the frame at exactly startTime + duration, delivered after a
\* clock step, has ended a transition that moved the camera.
C15_Witness ==
    /\ lastOp.op = "animate"
    /\ lastOp.elapsed = Duration
    /\ lastOp.after.op = "clock"
    /\ lastOp.startPosition # lastOp.targetPosition
    /\ transition = Null
    /\ ~isTransitioning


\* C16: after the Reset View button or the load of a model has placed the
\* camera at the fit pose, a later animation frame leaves the camera position
\* and the orbit target at that pose, also when a transition started earlier
\* is still in flight.
C16_Step ==
    (/\ lastOp.op \in {"resetView", "onload"}
     /\ lastOp.accepted
     /\ lastOp'.op = "animate")
    => /\ cameraPosition' = cameraPosition
       /\ controlsTarget' = controlsTarget
C16_FitSurvivesFrames == [][C16_Step]_vars


\* C17: after handleFileUpload was called for a new selection, loadedFiles
\* holds entries of files of that selection only and the displayed model is
\* replaced by files of that selection only: a read started by an earlier
\* upload that completes later is neither appended nor displayed.
C17_OnlyLatestSelection ==
    /\ \A i \in 1..Len(loadedFiles) : loadedFiles[i].latest
    /\ (lastOp.op = "onload" /\ lastOp.accepted) => lastOp.latest

\* C18: in every state currentFileIndex is loadedFiles.length - 1 (-1 exactly
\* when loadedFiles is empty), and when loadedFiles is not empty the geometry
\* of the entry at currentFileIndex is the geometry of the displayed model.
C18_IndexOfDisplayedModel ==
    /\ currentFileIndex = Len(loadedFiles) - 1
    /\ loadedFiles # <<>>
         => currentModel = Ref(loadedFiles[currentFileIndex + 1].geometry)

\* C18 witness: a read has failed while loadedFiles held an entry, after an
\* upload had emptied the list while a model was displayed.
C18_Witness ==
    /\ lastOp.op = "onload"
    /\ lastOp.error
    /\ currentFileIndex >= 0
    /\ currentModel # Null

====
